---- MODULE Spec2Model ----
(***************************************************************************)
(* Model of users/views.py: the auth cookie relay.                         *)
(*                                                                         *)
(* Each view handler is one action.  A handler reads the inbound request   *)
(* (cookies, parsed body), may write a cookie value into request.data,     *)
(* calls the delegate view (super().post), and on the handler's success    *)
(* status copies token fields of the response body into cookies.  The      *)
(* delegate library is not part of the repository: its response is a       *)
(* nondeterministic input of every handler.  The settings.AUTH_COOKIE_*    *)
(* values are read-only configuration chosen in Init.                      *)
(*                                                                         *)
(* Python values that may be None are sequences of length 0 or 1:          *)
(* None is << >>, the string s is << s >>.                                 *)
(***************************************************************************)
EXTENDS Integers, Sequences, FiniteSets, TLC

VARIABLES
    settings,       \* the settings.AUTH_COOKIE_* values
    jar,            \* the client's cookies, by name and path
    view,           \* the view that handled the last request
    request,        \* the last request: cookies, request.data as parsed
    delegateCall,   \* request.data as super().post saw it, None if not called
    delegateResp,   \* what super().post returned, None if not called
    response,       \* what the handler returned
    raised          \* the exception that left the handler, "" if none

vars == <<settings, jar, view, request, delegateCall, delegateResp, response, raised>>

(***************************************************************************)
(* Bounds and value sets                                                   *)
(***************************************************************************)
NumTokens == 2

TokenNames == <<"tokA", "tokB", "tokC", "tokD", "tokE", "tokF">>

Tokens == {TokenNames[i] : i \in 1..NumTokens}

None == << >>

Some(v) == <<v>>

Opt(S) == {None} \cup {Some(v) : v \in S}

\* cookie values a client may send: a token, or the empty string
CookieValues == Tokens \cup {""}

CookieNames == {"access", "refresh"}

Paths == {"/", "/api"}

HTTP_200_OK == 200

HTTP_204_NO_CONTENT == 204

\* Python truthiness of an optional string: None and "" are falsy
Truthy(o) == o # None /\ o[1] # ""

\* response.set_cookie stores str(value): None becomes the text "None"
str(o) == IF o = None THEN "None" ELSE o[1]

(***************************************************************************)
(* Responses and cookies                                                   *)
(***************************************************************************)
NoCookies == [n \in CookieNames |-> None]

Body(a, r, m) == [access |-> a, refresh |-> r, message |-> m]

\* HttpResponse.set_cookie(key, value, max_age, path, secure, httponly, samesite)
set_cookie(resp, key, value, max_age, path, secure, httponly, samesite) ==
    [resp EXCEPT !.cookies[key] =
        Some([value |-> str(value), max_age |-> max_age, path |-> path,
              secure |-> secure, httponly |-> httponly, samesite |-> samesite])]

\* HttpResponse.delete_cookie(key): path defaults to "/", expires at once
delete_cookie(resp, key) ==
    set_cookie(resp, key, Some(""), 0, "/", FALSE, FALSE, "")

\* the two set_cookie calls of the login handlers
SetAccessCookie(resp, s) ==
    set_cookie(resp, "access", resp.data[1].access, s.AUTH_COOKIE_ACCESS_MAX_AGE,
               s.AUTH_COOKIE_PATH, s.AUTH_COOKIE_SECURE, s.AUTH_COOKIE_HTTP_ONLY,
               s.AUTH_COOKIE_SAMESITE)

SetRefreshCookie(resp, s) ==
    set_cookie(resp, "refresh", resp.data[1].refresh, s.AUTH_COOKIE_REFRESH_MAX_AGE,
               s.AUTH_COOKIE_PATH, s.AUTH_COOKIE_SECURE, s.AUTH_COOKIE_HTTP_ONLY,
               s.AUTH_COOKIE_SAMESITE)

\* mutant: the second set_cookie call copied without changing the token
TokenObtainPairRelay_refreshFromAccess(resp, s) ==
    IF resp.status = 200
    THEN set_cookie(SetAccessCookie(resp, s), "refresh", resp.data[1].access,
                    s.AUTH_COOKIE_REFRESH_MAX_AGE, s.AUTH_COOKIE_PATH, s.AUTH_COOKIE_SECURE,
                    s.AUTH_COOKIE_HTTP_ONLY, s.AUTH_COOKIE_SAMESITE)
    ELSE resp

\* mutant: cookies on every 2xx status instead of on 200 only
TokenObtainPairRelay_anySuccess(resp, s) ==
    IF resp.status >= 200 /\ resp.status < 300
    THEN SetRefreshCookie(SetAccessCookie(resp, s), s)
    ELSE resp

\* CustomTokenObtainPairView.post after super().post returned resp
TokenObtainPairRelay(resp, s) ==
    IF resp.status = 200
    THEN SetRefreshCookie(SetAccessCookie(resp, s), s)
    ELSE resp

(***************************************************************************)
(* Requests                                                                *)
(***************************************************************************)
ReqFields == {"refresh", "token"}

NoFields == [f \in ReqFields |-> None]

Data(kind, fields) == [kind |-> kind, fields |-> fields]

\* the token a caller puts in a request body
BodyToken == TokenNames[1]

\* request.data as parsed from the bodies a caller can send, with or without
\* the field f: a JSON object parses to a dict, a form body to an immutable
\* QueryDict, a JSON array to a list
Bodies(f) ==
    {Data(k, [NoFields EXCEPT ![f] = v]) : k \in {"dict", "querydict"}, v \in Opt({BodyToken})}
    \cup {Data("list", NoFields)}

Request(cookies, data, auth) ==
    [cookies |-> cookies, data |-> data, authenticated |-> auth]

\* request.data[key] = value
setitem(data, key, value) ==
    CASE data.kind = "dict" ->
            [raised |-> "", data |-> [data EXCEPT !.fields[key] = value]]
      [] data.kind = "querydict" ->
            [raised |-> "AttributeError", data |-> data]
      [] OTHER ->
            [raised |-> "TypeError", data |-> data]

\* the first lines of the refresh and verify handlers: cookie into request.data
Inject(req, cookie, field) ==
    LET token == req.cookies[cookie]
    IN IF Truthy(token)
       THEN setitem(req.data, field, token)
       ELSE [raised |-> "", data |-> req.data]

\* what the delegate view may answer
DelegateResponses(statuses, refreshes) ==
    {[status |-> st, data |-> Some(Body(a, r, None)), cookies |-> NoCookies] :
        st \in statuses, a \in Opt(Tokens), r \in Opt(refreshes)}

\* TokenRefreshView answers with a new access token, and with a new refresh
\* token too when refresh tokens rotate
RefreshResponses == DelegateResponses({200, 401}, {TokenNames[2]})

\* TokenVerifyView answers with an empty object or an error detail
VerifyResponses ==
    {[status |-> st, data |-> Some(Body(None, None, None)), cookies |-> NoCookies] :
        st \in {200, 401}}

\* an exception that leaves the handler becomes the server's error response
ServerError == [status |-> 500, data |-> None, cookies |-> NoCookies]

NoResponse == [status |-> 0, data |-> None, cookies |-> NoCookies]

Outcome(r, call, dresp, resp) ==
    [raised |-> r, call |-> call, dresp |-> dresp, response |-> resp]

(***************************************************************************)
(* The handlers as functions of the request and the delegate's answer      *)
(***************************************************************************)
\* mutant: the success status of the password login, 200, copied here
ProviderAuthRelay_ok200(resp, s) ==
    IF resp.status = 200
    THEN SetRefreshCookie(SetAccessCookie(resp, s), s)
    ELSE resp

\* CustomProviderAuthView.post after super().post returned resp
ProviderAuthRelay(resp, s) ==
    IF resp.status = 201
    THEN SetRefreshCookie(SetAccessCookie(resp, s), s)
    ELSE resp

\* mutant: the refresh cookie set as the login handlers set it
TokenRefreshRelay_bothCookies(resp, s) ==
    IF resp.status = 200
    THEN SetRefreshCookie(SetAccessCookie(resp, s), s)
    ELSE resp

\* CustomTokenRefreshView.post after super().post returned resp
TokenRefreshRelay(resp, s) ==
    IF resp.status = 200
    THEN SetAccessCookie(resp, s)
    ELSE resp

ProviderAuth(req, d, s) == Outcome("", Some(req.data), Some(d), ProviderAuthRelay(d, s))

TokenObtainPair(req, d, s) == Outcome("", Some(req.data), Some(d), TokenObtainPairRelay(d, s))

TokenRefresh(req, d, s) ==
    LET inj == Inject(req, "refresh", "refresh")
    IN IF inj.raised # ""
       THEN Outcome(inj.raised, None, None, ServerError)
       ELSE Outcome("", Some(inj.data), Some(d), TokenRefreshRelay(d, s))

TokenVerify(req, d) ==
    LET inj == Inject(req, "access", "token")
    IN IF inj.raised # ""
       THEN Outcome(inj.raised, None, None, ServerError)
       ELSE Outcome("", Some(inj.data), Some(d), d)

\* mutant: the refresh cookie is not deleted
Logout_accessOnly ==
    LET resp == [status |-> HTTP_204_NO_CONTENT, data |-> None, cookies |-> NoCookies]
    IN Outcome("", None, None, delete_cookie(resp, "access"))

\* LogoutView.post
Logout ==
    LET resp == [status |-> HTTP_204_NO_CONTENT, data |-> None, cookies |-> NoCookies]
    IN Outcome("", None, None, delete_cookie(delete_cookie(resp, "access"), "refresh"))

privacy_policy_text ==
    "This is the privacy policy of our application. We value your privacy and are committed to protecting your personal information."

terms_of_service_text ==
    "\n        These are the terms of service of our application. By using our service, you agree to comply with these terms.\n        "

data_deletion_policy_text ==
    "\n        This is the data deletion policy of our application. You can request the deletion of your personal data at any time.\n        "

PolicyResponse(text) ==
    [status |-> HTTP_200_OK, data |-> Some(Body(None, None, Some(text))), cookies |-> NoCookies]

PrivacyPolicy == Outcome("", None, None, PolicyResponse(privacy_policy_text))

\* mutant: the terms endpoint answers with the privacy text
TermsOfService_privacyText == Outcome("", None, None, PolicyResponse(privacy_policy_text))

TermsOfService == Outcome("", None, None, PolicyResponse(terms_of_service_text))

DataDeletionPolicy == Outcome("", None, None, PolicyResponse(data_deletion_policy_text))

\* the delegate answers only when the handler reaches super().post
Answers(inj, answers) == IF inj.raised # "" THEN {NoResponse} ELSE answers

(***************************************************************************)
(* The client                                                              *)
(***************************************************************************)
\* the cookies the client's jar sends along with a request to an endpoint
JarCookies(j) ==
    [n \in CookieNames |->
        IF j[<<n, "/api">>] # None THEN j[<<n, "/api">>] ELSE j[<<n, "/">>]]

\* the client stores or removes a cookie as the response instructs
ApplyCookie(j, n, c) ==
    IF c = None THEN j
    ELSE IF c[1].max_age <= 0
         THEN [j EXCEPT ![<<n, c[1].path>>] = None]
         ELSE [j EXCEPT ![<<n, c[1].path>>] = Some(c[1].value)]

ClientStore(j, resp) ==
    ApplyCookie(ApplyCookie(j, "access", resp.cookies["access"]),
                "refresh", resp.cookies["refresh"])

(***************************************************************************)
(* Init                                                                    *)
(***************************************************************************)
Settings ==
    [AUTH_COOKIE_ACCESS_MAX_AGE : {300},
     AUTH_COOKIE_REFRESH_MAX_AGE : {86400},
     AUTH_COOKIE_PATH : Paths,
     AUTH_COOKIE_SECURE : BOOLEAN,
     AUTH_COOKIE_HTTP_ONLY : BOOLEAN,
     AUTH_COOKIE_SAMESITE : {"Lax", "None"}]

Init ==
    /\ settings \in Settings
    /\ jar = [k \in CookieNames \X Paths |-> None]
    /\ view = "none"
    /\ request = Request(NoCookies, Data("dict", NoFields), FALSE)
    /\ delegateCall = None
    /\ delegateResp = None
    /\ response = NoResponse
    /\ raised = ""

\* one request handled: the view that ran, what it was given and what it did
Handled(v, req, out) ==
    /\ view' = v
    /\ request' = req
    /\ delegateCall' = out.call
    /\ delegateResp' = out.dresp
    /\ response' = out.response
    /\ raised' = out.raised
    /\ UNCHANGED settings

AnyCookies == [CookieNames -> Opt(CookieValues)]

\* requests that carry one cookie of interest, with any value
OneCookie(n) == {[NoCookies EXCEPT ![n] = v] : v \in Opt(CookieValues)}

(***************************************************************************)
(* The server: every handler, on any request                               *)
(***************************************************************************)
CustomProviderAuthView_post ==
    \E d \in DelegateResponses({201, 200, 400}, Tokens) :
        LET req == Request(NoCookies, Data("dict", NoFields), FALSE)
        IN Handled("social", req, ProviderAuth(req, d, settings)) /\ UNCHANGED jar

CustomTokenObtainPairView_post ==
    \E d \in DelegateResponses({200, 201, 401}, Tokens) :
        LET req == Request(NoCookies, Data("dict", NoFields), FALSE)
        IN Handled("login", req, TokenObtainPair(req, d, settings)) /\ UNCHANGED jar

CustomTokenRefreshView_post ==
    \E c \in OneCookie("refresh"), b \in Bodies("refresh") :
        LET req == Request(c, b, FALSE)
        IN \E d \in Answers(Inject(req, "refresh", "refresh"), RefreshResponses) :
              Handled("refresh", req, TokenRefresh(req, d, settings)) /\ UNCHANGED jar

CustomTokenVerifyView_post ==
    \E c \in OneCookie("access"), b \in Bodies("token") :
        LET req == Request(c, b, FALSE)
        IN \E d \in Answers(Inject(req, "access", "token"), VerifyResponses) :
              Handled("verify", req, TokenVerify(req, d)) /\ UNCHANGED jar

LogoutView_post ==
    \E c \in AnyCookies, auth \in BOOLEAN :
        Handled("logout", Request(c, Data("dict", NoFields), auth), Logout) /\ UNCHANGED jar

PrivacyPolicyView_get ==
    \E c \in OneCookie("access"), auth \in BOOLEAN :
        Handled("privacy", Request(c, Data("dict", NoFields), auth), PrivacyPolicy)
        /\ UNCHANGED jar

TermsOfServiceView_get ==
    \E c \in OneCookie("access"), auth \in BOOLEAN :
        Handled("terms", Request(c, Data("dict", NoFields), auth), TermsOfService)
        /\ UNCHANGED jar

DataDeletionPolicyView_get ==
    \E c \in OneCookie("access"), auth \in BOOLEAN :
        Handled("deletion", Request(c, Data("dict", NoFields), auth), DataDeletionPolicy)
        /\ UNCHANGED jar

Next ==
    \/ CustomProviderAuthView_post
    \/ CustomTokenObtainPairView_post
    \/ CustomTokenRefreshView_post
    \/ CustomTokenVerifyView_post
    \/ LogoutView_post
    \/ PrivacyPolicyView_get
    \/ TermsOfServiceView_get
    \/ DataDeletionPolicyView_get

Spec == Init /\ [][Next]_vars

(***************************************************************************)
(* A session: one client that sends its jar's cookies with every request   *)
(* and stores or removes cookies as each response instructs.  The delegate *)
(* answers as the token library does: tokens on success, none on failure.  *)
(***************************************************************************)
ClientBodies(f) == {Data("dict", [NoFields EXCEPT ![f] = v]) : v \in Opt({BodyToken})}

\* a token pair on the success status ok, no token on any other status
IssuesPair(d, ok) ==
    IF d.status = ok
    THEN d.data[1].access # None /\ d.data[1].refresh # None
    ELSE d.data[1].access = None /\ d.data[1].refresh = None

\* a new access token on 200 (and a new refresh token if tokens rotate)
IssuesAccess(d) ==
    IF d.status = 200
    THEN d.data[1].access # None
    ELSE d.data[1].access = None /\ d.data[1].refresh = None

ClientSocialLogin ==
    \E d \in {x \in DelegateResponses({201, 400}, Tokens) : IssuesPair(x, 201)} :
        LET req == Request(JarCookies(jar), Data("dict", NoFields), FALSE)
            out == ProviderAuth(req, d, settings)
        IN Handled("social", req, out) /\ jar' = ClientStore(jar, out.response)

ClientLogin ==
    \E d \in {x \in DelegateResponses({200, 401}, Tokens) : IssuesPair(x, 200)} :
        LET req == Request(JarCookies(jar), Data("dict", NoFields), FALSE)
            out == TokenObtainPair(req, d, settings)
        IN Handled("login", req, out) /\ jar' = ClientStore(jar, out.response)

ClientRefresh ==
    \E b \in ClientBodies("refresh"), d \in {x \in RefreshResponses : IssuesAccess(x)} :
        LET req == Request(JarCookies(jar), b, FALSE)
            out == TokenRefresh(req, d, settings)
        IN Handled("refresh", req, out) /\ jar' = ClientStore(jar, out.response)

ClientVerify ==
    \E b \in ClientBodies("token"), d \in VerifyResponses :
        LET req == Request(JarCookies(jar), b, FALSE)
            out == TokenVerify(req, d)
        IN Handled("verify", req, out) /\ jar' = ClientStore(jar, out.response)

ClientLogout ==
    \E auth \in BOOLEAN :
        LET req == Request(JarCookies(jar), Data("dict", NoFields), auth)
        IN Handled("logout", req, Logout) /\ jar' = ClientStore(jar, Logout.response)

NextSession ==
    \/ ClientSocialLogin
    \/ ClientLogin
    \/ ClientRefresh
    \/ ClientVerify
    \/ ClientLogout

SpecSession == Init /\ [][NextSession]_vars

(***************************************************************************)
(* Properties                                                              *)
(***************************************************************************)
\* the body the delegate answered with
DelegateBody == delegateResp[1].data[1]

\* cookie n of the response is set with the configured attributes
Attributes(n, max_age) ==
    /\ response.cookies[n] # None
    /\ response.cookies[n][1].max_age = max_age
    /\ response.cookies[n][1].path = settings.AUTH_COOKIE_PATH
    /\ response.cookies[n][1].secure = settings.AUTH_COOKIE_SECURE
    /\ response.cookies[n][1].httponly = settings.AUTH_COOKIE_HTTP_ONLY
    /\ response.cookies[n][1].samesite = settings.AUTH_COOKIE_SAMESITE

\* cookie n of the response carries value v and the configured attributes
Configured(n, v, max_age) == Attributes(n, max_age) /\ response.cookies[n][1].value = v

\* cookie n of the response is set, with the configured attributes, from the
\* body's token field f
RelaysToken(n, f, max_age) ==
    /\ Attributes(n, max_age)
    /\ f # None => Configured(n, f[1], max_age)

PassedThrough == delegateResp # None /\ response = delegateResp[1]

\* C1: password login, delegate status 200: the response carries the cookies
\* "access" and "refresh", each with the value of the body's field of the same
\* name and the configured attributes (its own max-age, the shared path,
\* secure, http-only and same-site)
C1_LoginSetsBothCookies ==
    (view = "login" /\ delegateResp[1].status = 200) =>
        /\ RelaysToken("access", DelegateBody.access, settings.AUTH_COOKIE_ACCESS_MAX_AGE)
        /\ RelaysToken("refresh", DelegateBody.refresh, settings.AUTH_COOKIE_REFRESH_MAX_AGE)
        /\ response.status = 200
        /\ response.data = delegateResp[1].data

C1_Witness ==
    /\ view = "login"
    /\ delegateResp[1].status = 200
    /\ DelegateBody.access = Some(TokenNames[1])
    /\ DelegateBody.refresh = Some(TokenNames[2])
    /\ Configured("access", TokenNames[1], settings.AUTH_COOKIE_ACCESS_MAX_AGE)
    /\ Configured("refresh", TokenNames[2], settings.AUTH_COOKIE_REFRESH_MAX_AGE)
    /\ settings.AUTH_COOKIE_SECURE /\ settings.AUTH_COOKIE_HTTP_ONLY

\* C2: password login, delegate status other than 200: no cookie is added and
\* the delegate's response is returned as it is
C2_LoginFailurePassesThrough ==
    (view = "login" /\ delegateResp[1].status # 200) =>
        /\ response.cookies = NoCookies
        /\ PassedThrough

C2_Witness ==
    /\ view = "login"
    /\ delegateResp[1].status = 201
    /\ DelegateBody.access # None /\ DelegateBody.refresh # None
    /\ response.cookies = NoCookies
    /\ response.status = 201

\* C3: social login: both cookies are set from the body's fields exactly when
\* the delegate's status is 201; on every other status, 200 included, no
\* cookie is set and the delegate's response is returned as it is
C3_SocialCookiesIffCreated ==
    view = "social" =>
        /\ delegateResp[1].status = 201 =>
            /\ RelaysToken("access", DelegateBody.access, settings.AUTH_COOKIE_ACCESS_MAX_AGE)
            /\ RelaysToken("refresh", DelegateBody.refresh, settings.AUTH_COOKIE_REFRESH_MAX_AGE)
        /\ delegateResp[1].status # 201 =>
            /\ response.cookies = NoCookies
            /\ PassedThrough

C3_Witness ==
    /\ view = "social"
    /\ delegateResp[1].status = 200
    /\ DelegateBody.access # None /\ DelegateBody.refresh # None
    /\ response.cookies = NoCookies

\* C4: refresh: whenever the request carries a "refresh" cookie, with any
\* value R, the delegate is called with the refresh field equal to R
C4_RefreshCookieReachesDelegate ==
    (view = "refresh" /\ request.cookies["refresh"] # None) =>
        /\ delegateCall # None
        /\ delegateCall[1].fields["refresh"] = request.cookies["refresh"]

\* C5: refresh, once the delegate has answered: on status 200 the response
\* sets the cookie "access" from the body's access field and no "refresh"
\* cookie, also when the body has a refresh field; on any other status no
\* cookie is set and the response is passed through
C5_RefreshSetsAccessOnly ==
    (view = "refresh" /\ delegateResp # None) =>
        /\ delegateResp[1].status = 200 =>
            /\ RelaysToken("access", DelegateBody.access, settings.AUTH_COOKIE_ACCESS_MAX_AGE)
            /\ response.cookies["refresh"] = None
        /\ delegateResp[1].status # 200 =>
            /\ response.cookies = NoCookies
            /\ PassedThrough

C5_Witness ==
    /\ view = "refresh"
    /\ delegateResp # None
    /\ delegateResp[1].status = 200
    /\ DelegateBody.refresh # None
    /\ DelegateBody.access = Some(TokenNames[1])
    /\ Configured("access", TokenNames[1], settings.AUTH_COOKIE_ACCESS_MAX_AGE)
    /\ response.cookies["refresh"] = None

\* C6: verify: whenever the request carries an "access" cookie with value A,
\* the delegate is called with the token field equal to A whatever the body
\* holds, and its response is returned unchanged with no cookie set or deleted
C6_VerifyCookieReachesDelegate ==
    (view = "verify" /\ request.cookies["access"] # None) =>
        /\ delegateCall # None
        /\ delegateCall[1].fields["token"] = request.cookies["access"]
        /\ PassedThrough
        /\ response.cookies = NoCookies

\* the response tells the client to delete cookie n
InstructsDeletion(n) ==
    /\ response.cookies[n] # None
    /\ response.cookies[n][1].value = ""
    /\ response.cookies[n][1].max_age = 0

\* C7: logout: whatever the request carries, the response has status 204, an
\* empty body, and instructs the deletion of both cookies; nothing is raised
C7_LogoutAlwaysNoContent ==
    view = "logout" =>
        /\ response.status = 204
        /\ response.data = None
        /\ InstructsDeletion("access")
        /\ InstructsDeletion("refresh")
        /\ raised = ""

C7_Witness ==
    /\ view = "logout"
    /\ ~request.authenticated
    /\ request.cookies["access"] = Some("")
    /\ request.cookies["refresh"] = None
    /\ response.status = 204
    /\ InstructsDeletion("refresh")

\* C8: the four delegate-backed handlers add no failure of their own: nothing
\* is raised by the relay's steps, and a response is the delegate's own status
\* and body
C8_NoFailureOfItsOwn ==
    view \in {"social", "login", "refresh", "verify"} =>
        /\ raised = ""
        /\ delegateResp # None
        /\ response.status = delegateResp[1].status
        /\ response.data = delegateResp[1].data

\* C9: each policy endpoint answers every caller with status 200, a body
\* whose message is its own fixed text, and no cookie
C9_PolicyFixedResponse ==
    /\ view = "privacy" =>
        response = [status |-> 200, cookies |-> NoCookies,
                    data |-> Some(Body(None, None, Some(privacy_policy_text)))]
    /\ view = "terms" =>
        response = [status |-> 200, cookies |-> NoCookies,
                    data |-> Some(Body(None, None, Some(terms_of_service_text)))]
    /\ view = "deletion" =>
        response = [status |-> 200, cookies |-> NoCookies,
                    data |-> Some(Body(None, None, Some(data_deletion_policy_text)))]
    /\ view \in {"privacy", "terms", "deletion"} => raised = "" /\ delegateCall = None

C9_Witness ==
    /\ view = "terms"
    /\ ~request.authenticated
    /\ response.status = 200
    /\ response.data[1].message = Some(terms_of_service_text)
    /\ terms_of_service_text # privacy_policy_text
    /\ terms_of_service_text # data_deletion_policy_text

\* C10: in a session, for every configured cookie path, once the client has
\* carried out a logout its jar holds neither an "access" nor a "refresh"
\* cookie
C10_LogoutEmptiesJar ==
    view = "logout" => \A k \in CookieNames \X Paths : jar[k] = None

====
